---- MODULE Spec2Model ----
(***************************************************************************)
(* The retrieval-and-arbitration pipeline of erp-chat-poc:                 *)
(*   AgentService.run      (backend/src/agent/agent.service.ts)            *)
(*   RagService.searchHybrid (rag.service.ts, the version with the hybrid  *)
(*                            retriever)                                   *)
(* Text is a sequence of one-character strings; the character U+2019 is    *)
(* written "RSQUO".  Confidence is counted in tenths (0.7 is 7).           *)
(***************************************************************************)
EXTENDS Integers, Sequences, FiniteSets, TLC

VARIABLES
    pc,              \* position of the request inside AgentService.run
    message,         \* run's argument: the user's question
    rewritten,       \* outcome of rewriteChain.invoke (live inside the try block)
    ragQuery,        \* the query handed to rag.searchHybrid
    matches,         \* rows returned by rag.searchHybrid
    keep,            \* the chunk ids of the filter chain's keep_chunk_ids
    filteredMatches, \* rows kept by the filter step (after the empty fallback)
    sourcesText,     \* buildSourcesText(filteredMatches)
    out1,            \* result of chainV1 (<<>> while pending)
    out2,            \* result of chainV2 (<<>> while pending)
    score1,
    score2,
    winner,          \* "v1" | "v2" | "none"
    result,          \* the Answer run resolves with (<<>> before that)
    error,           \* the stage whose failure made run reject ("none" otherwise)
    duel,            \* the two answer chains: what each was invoked with, who resolved first
    query,           \* searchHybrid's argument
    limit,           \* searchHybrid's second argument
    mode,            \* the retrieval path searchHybrid took
    tokens,          \* extractIdentifierTokens(query)
    tokenIdx,        \* index of the next token of the lexical loop
    lexicalResults,  \* rows pushed by the lexical loop
    ragRows,         \* what searchHybrid resolved with
    rpc,             \* position inside searchHybrid
    embedCalls,      \* bedrock.embed calls made by this searchHybrid call
    ragError,        \* what made searchHybrid reject ("none" otherwise)
    distOrder,       \* the store's chunks by distance to the query's embedding
    vectorRows,      \* what searchVector / search resolved with
    prevRows,        \* result of the earlier call with the same arguments (<<>>: none)
    documents,       \* the rows of public.rag_documents
    chunkRows,       \* the rows of public.rag_chunks
    docSeq,          \* the last id the rag_documents sequence gave out
    workers,         \* each ingestion run: where it stands and its locals
    messages,        \* ChatPage: the messages state
    loading,         \* ChatPage: the loading state
    selected,        \* ChatPage: messageId of the selected state (<<>>: null)
    chatError,       \* ChatPage: the error state is set
    inflight,        \* ChatPage: assistantId of the pending chatAsk (<<>>: none)
    uids             \* ChatPage: how many ids uid() has given out

vars == <<pc, message, rewritten, ragQuery, matches, keep, filteredMatches,
          sourcesText, out1, out2, score1, score2, winner, result, error, duel,
          query, limit, mode, tokens, tokenIdx, lexicalResults, ragRows, rpc,
          embedCalls, ragError, distOrder, vectorRows, prevRows,
          documents, chunkRows, docSeq, workers,
          messages, loading, selected, chatError, inflight, uids>>

runVars == <<pc, message, rewritten, ragQuery, matches, keep, filteredMatches,
             sourcesText, out1, out2, score1, score2, winner, result, error, duel>>

ragVars == <<query, limit, mode, tokens, tokenIdx, lexicalResults, ragRows, rpc,
             embedCalls, ragError, distOrder, vectorRows, prevRows>>

ingestVars == <<documents, chunkRows, docSeq, workers>>

chatVars == <<messages, loading, selected, chatError, inflight, uids>>

(***************************************************************************)
(* Characters and strings (what the JavaScript string methods do)          *)
(***************************************************************************)
Lowers ==
    <<"a","b","c","d","e","f","g","h","i","j","k","l","m",
      "n","o","p","q","r","s","t","u","v","w","x","y","z">>

Uppers ==
    <<"A","B","C","D","E","F","G","H","I","J","K","L","M",
      "N","O","P","Q","R","S","T","U","V","W","X","Y","Z">>

DigitSeq == <<"0","1","2","3","4","5","6","7","8","9">>

LowerChars == {Lowers[i] : i \in 1..Len(Lowers)}

UpperChars == {Uppers[i] : i \in 1..Len(Uppers)}

DigitChars == {DigitSeq[i] : i \in 1..Len(DigitSeq)}

LowerOf == [c \in UpperChars |-> Lowers[CHOOSE i \in 1..Len(Uppers) : Uppers[i] = c]]

LowerChar(c) == IF c \in UpperChars THEN LowerOf[c] ELSE c

\* String.prototype.toLowerCase
ToLowerCase(s) == [i \in 1..Len(s) |-> LowerChar(s[i])]

\* \s
IsSpace(c) == c \in {" ", "\t", "\n"}

\* \d
IsDigit(c) == c \in DigitChars

\* [A-Za-z0-9]
IsAlnum(c) == c \in DigitChars \cup LowerChars \cup UpperChars

\* \w
IsWordChar(c) == IsAlnum(c) \/ c = "_"

\* \b between s[k] and s[k+1] (k = 0 is the start, k = Len(s) the end)
IsBoundary(s, k) ==
    LET before == k >= 1 /\ IsWordChar(s[k])
        after  == k < Len(s) /\ IsWordChar(s[k + 1])
    IN  before # after

Least(S) == CHOOSE i \in S : \A j \in S : i <= j

Greatest(S) == CHOOSE i \in S : \A j \in S : i >= j

\* s cut to the span of the positions in `solid`
Span(s, solid) == IF solid = {} THEN <<>> ELSE SubSeq(s, Least(solid), Greatest(solid))

\* String.prototype.trim
Trim(s) == Span(s, {i \in 1..Len(s) : ~IsSpace(s[i])})

\* String.prototype.includes
Includes(hay, needle) ==
    \E i \in 0..(Len(hay) - Len(needle)) : SubSeq(hay, i + 1, i + Len(needle)) = needle

\* String.prototype.startsWith
StartsWith(s, p) == Len(p) <= Len(s) /\ SubSeq(s, 1, Len(p)) = p

\* the literal `lit` (lower case) occurs in s at position i, ignoring case (/i)
LiteralAt(s, i, lit) ==
    /\ i >= 1
    /\ i + Len(lit) - 1 <= Len(s)
    /\ ToLowerCase(SubSeq(s, i, i + Len(lit) - 1)) = lit

LeastOr(S, d) == IF S = {} THEN d ELSE Least(S)

\* the first position from p on that holds no \s character (Len(s) + 1 if none)
SkipSpaces(s, p) == LeastOr({k \in p..Len(s) : ~IsSpace(s[k])}, Len(s) + 1)

\* String(n) for a natural number
RECURSIVE NatStr(_)
NatStr(n) ==
    IF n < 10 THEN <<DigitSeq[n + 1]>>
    ELSE NatStr(n \div 10) \o <<DigitSeq[(n % 10) + 1]>>

S_code ==
    <<"c","o","d","e">>

S_barcode ==
    <<"b","a","r","c","o","d","e">>

S_codeLabel ==
    <<"c","o","d","e",":"," ">>

S_barcodeLabel ==
    <<"b","a","r","c","o","d","e",":"," ">>

S_nameLabel ==
    <<"n","a","m","e",":"," ">>

S_doWeHave ==
    <<"d","o"," ","w","e"," ","h","a","v","e">>

S_haveWeBuilt ==
    <<"h","a","v","e"," ","w","e"," ","b","u","i","l","t">>

S_productNamed ==
    <<"p","r","o","d","u","c","t"," ","n","a","m","e","d">>

S_no ==
    <<"n","o">>

S_couldntFind ==
    <<"c","o","u","l","d","n","RSQUO","t"," ","f","i","n","d">>

S_srcOpen ==
    <<"#"," ","S","o","u","r","c","e"," ">>

S_srcChunk ==
    <<" ","(","c","h","u","n","k","_","i","d","=">>

S_srcTitle ==
    <<","," ","t","i","t","l","e","=">>

(***************************************************************************)
(* AgentService.buildSourcesText                                           *)
(***************************************************************************)
SourceBlock(ms, i) ==
    S_srcOpen \o NatStr(i) \o S_srcChunk \o NatStr(ms[i].chunk_id)
        \o S_srcTitle \o ms[i].title \o <<")">> \o <<"\n">> \o ms[i].chunk_text

RECURSIVE JoinBlocks(_, _)
JoinBlocks(ms, i) ==
    IF i > Len(ms) THEN <<>>
    ELSE IF i = Len(ms) THEN SourceBlock(ms, i)
    ELSE SourceBlock(ms, i) \o <<"\n", "\n">> \o JoinBlocks(ms, i + 1)

BuildSourcesText(ms) == IF Len(ms) = 0 THEN <<>> ELSE JoinBlocks(ms, 1)

(***************************************************************************)
(* AgentService.extractDirectMatchSignals                                  *)
(***************************************************************************)
\* [A-Za-z0-9:\/\-\s]
IsCodeClass(c) == IsAlnum(c) \/ c \in {":", "/", "-"} \/ IsSpace(c)

\* [0-9A-Za-z\-]
IsBarcodeClass(c) == IsAlnum(c) \/ c = "-"

\* /code\s*[:\-]?\s*([A-Za-z0-9:\/\-\s]+)$/i matches with "code" at i: every
\* part of the tail is drawn from the group's class, so the tail only has to
\* be non-empty and inside the class
CodeMatchesAt(q, i) ==
    /\ LiteralAt(q, i, S_code)
    /\ i + 4 <= Len(q)
    /\ \A k \in (i + 4)..Len(q) : IsCodeClass(q[k])

\* [:\-]? at position a
SkipSeparator(q, a) == IF a <= Len(q) /\ q[a] \in {":", "-"} THEN a + 1 ELSE a

\* where the group starts: \s*, [:\-]? and \s* take all they can; when they
\* take the whole tail the last of them gives back its last character
GiveBackLast(q, b) == IF b <= Len(q) THEN b ELSE Len(q)

CodeGroupStart(q, p) ==
    GiveBackLast(q, SkipSpaces(q, SkipSeparator(q, SkipSpaces(q, p))))

CodeGroupFrom(q, starts) ==
    IF starts = {} THEN <<>>
    ELSE Trim(SubSeq(q, CodeGroupStart(q, Least(starts) + 4), Len(q)))

\* question.match(/code\s*[:\-]?\s*([A-Za-z0-9:\/\-\s]+)$/i)?.[1]?.trim()
\* (<<>> stands for undefined and for the empty string: both are falsy)
CodeLike(q) == CodeGroupFrom(q, {i \in 1..Len(q) : CodeMatchesAt(q, i)})

\* where a group ([0-9A-Za-z\-]+)\b that starts at st can end: inside the run
\* of class characters, at a word boundary
BarcodeEnds(q, st) ==
    {e \in st..Len(q) :
        /\ \A k \in st..e : IsBarcodeClass(q[k])
        /\ IsBoundary(q, e)}

SubSeqToGreatest(q, st, ends) ==
    IF ends = {} THEN <<>> ELSE SubSeq(q, st, Greatest(ends))

\* the group, as long as it can be (<<>>: no group starts at st)
BarcodeGroupAt(q, st) == SubSeqToGreatest(q, st, BarcodeEnds(q, st))

\* a || b on strings
OrElse(a, b) == IF a # <<>> THEN a ELSE b

\* [:\-]?\s*(group) from position ap, the first non-blank after "barcode": the
\* separator is taken if the group can follow it, and left to the group if not
BarcodeAfterBlanks(q, ap) ==
    IF ap <= Len(q) /\ q[ap] \in {":", "-"}
    THEN OrElse(BarcodeGroupAt(q, SkipSpaces(q, ap + 1)), BarcodeGroupAt(q, ap))
    ELSE BarcodeGroupAt(q, ap)

\* the group of /barcode\s*[:\-]?\s*([0-9A-Za-z\-]+)\b/i with "barcode" at i
BarcodeMatchAt(q, i) ==
    IF LiteralAt(q, i, S_barcode)
    THEN BarcodeAfterBlanks(q, SkipSpaces(q, i + 7))
    ELSE <<>>

BarcodeGroupFrom(q, starts) ==
    IF starts = {} THEN <<>> ELSE Trim(BarcodeMatchAt(q, Least(starts)))

\* question.match(/barcode\s*[:\-]?\s*([0-9A-Za-z\-]+)\b/i)?.[1]?.trim()
BarcodeLike(q) ==
    BarcodeGroupFrom(q, {i \in 1..Len(q) : BarcodeMatchAt(q, i) # <<>>})

\* the tail from p matches \s+(.+?)\??$ : a blank at p, and what follows the
\* blanks (from g on) holds no line break
NameTailOk(q, p, g) ==
    /\ g > p
    /\ \A k \in g..Len(q) : q[k] # "\n"
    /\ g > Len(q) => (g - p >= 2 /\ q[Len(q)] # "\n")

\* /<phrase>\s+(.+?)\??$/i matches with the phrase at i
NameMatchesAt(q, i, phrase) ==
    /\ LiteralAt(q, i, phrase)
    /\ NameTailOk(q, i + Len(phrase), SkipSpaces(q, i + Len(phrase)))

\* \s+ is greedy and (.+?) lazy, so the group is all that follows the blanks
\* but one closing "?"; when only blanks follow, the group is the last of them
\* and trims to nothing
NameGroup(q, g) ==
    IF g > Len(q) THEN <<>>
    ELSE IF q[Len(q)] = "?" /\ g < Len(q) THEN Trim(SubSeq(q, g, Len(q) - 1))
    ELSE Trim(SubSeq(q, g, Len(q)))

NameGroupFrom(q, phrase, starts) ==
    IF starts = {} THEN <<>>
    ELSE NameGroup(q, SkipSpaces(q, Least(starts) + Len(phrase)))

\* question.match(/<phrase>\s+(.+?)\??$/i)?.[1]?.trim()
NameAfter(q, phrase) ==
    NameGroupFrom(q, phrase, {i \in 1..Len(q) : NameMatchesAt(q, i, phrase)})

PossibleName(q) ==
    OrElse(NameAfter(q, S_doWeHave),
           OrElse(NameAfter(q, S_haveWeBuilt), NameAfter(q, S_productNamed)))

\* x ? sourcesText.toLowerCase().includes(`<label>${x.toLowerCase()}`) : false
InSources(low, label, x) == x # <<>> /\ Includes(low, label \o ToLowerCase(x))

SignalsOf(low, codeLike, barcodeLike, name) ==
    [hasCodeInSources    |-> InSources(low, S_codeLabel, codeLike),
     hasBarcodeInSources |-> InSources(low, S_barcodeLabel, barcodeLike),
     hasNameInSources    |-> InSources(low, S_nameLabel, name)]

ExtractDirectMatchSignals(question, srcText) ==
    SignalsOf(ToLowerCase(srcText), CodeLike(question), BarcodeLike(question),
              PossibleName(question))

(***************************************************************************)
(* AgentService.scoreAnswer                                                *)
(***************************************************************************)
\* InvalidCites with ids of different types compared: no cited id is found
InvalidCitesUnnormalised(out, fm) == 1..Len(out.citations)

\* the chunk ids a candidate cites that are not among the filtered matches
InvalidCites(out, fm) ==
    {i \in 1..Len(out.citations) :
        \A j \in 1..Len(fm) : fm[j].chunk_id # out.citations[i].chunk_id}

StartsWithNoOrCouldntFind(ansLower) ==
    StartsWith(ansLower, S_no) \/ Includes(ansLower, S_couldntFind)

SaysNo(out) == StartsWithNoOrCouldntFind(ToLowerCase(out.answer))

\* CitationTerm without the penalty branch
CitationTermNoPenalty(out, fm) == IF Len(out.citations) > 0 THEN 1 ELSE 0

\* the points of the citation term
CitationTerm(out, fm) ==
    IF InvalidCites(out, fm) # {} THEN -5
    ELSE IF Len(out.citations) > 0 THEN 1
    ELSE 0

AnySignal(signals) ==
    \/ signals.hasCodeInSources
    \/ signals.hasBarcodeInSources
    \/ signals.hasNameInSources

\* the points of the two direct-match terms
DirectMatchTerm(out, srcText, question) ==
    IF AnySignal(ExtractDirectMatchSignals(question, srcText))
    THEN (IF SaysNo(out) THEN -10 ELSE 1)
    ELSE 0

\* ScoreAnswer without the overconfidence term
ScoreAnswerNoOverconfidence(out, fm, srcText, question) ==
    (IF out.grounded THEN 3 ELSE -1)
    + (IF out.confidence >= 7 THEN 1 ELSE 0)
    + CitationTerm(out, fm)
    + DirectMatchTerm(out, srcText, question)

\* out is a value the answer parser accepted (AnswerSchema): answer is a
\* string and confidence a number, so the -999 exit is not taken.
ScoreAnswer(out, fm, srcText, question) ==
    (IF out.grounded THEN 3 ELSE -1)
    + (IF out.confidence >= 9 /\ ~out.grounded THEN -2 ELSE 0)
    + (IF out.confidence >= 7 THEN 1 ELSE 0)
    + CitationTerm(out, fm)
    + DirectMatchTerm(out, srcText, question)

(***************************************************************************)
(* Inputs of the model: questions, rows of the store, model responses      *)
(***************************************************************************)
M_semantic ==
    <<"d","o"," ","w","e"," ","h","a","v","e"," ","R","e","f","r","e","s","h"," ","T","e","a","r","s","?">>

M_lookupCode ==
    <<"l","o","o","k"," ","u","p"," ","c","o","d","e",":"," ","P","E","-","1","2","3","4">>

M_codeQuestion ==
    <<"d","o"," ","w","e"," ","h","a","v","e"," ","c","o","d","e"," ","P","E","-","1","2","3","4","?">>

M_barcode ==
    <<"i","s"," ","t","h","e","r","e"," ","a"," ","b","a","r","c","o","d","e"," ","0","9","0","3","8"," ","i","t","e","m">>

M_bareCode ==
    <<"P","E","-","1","2","3","4"," ","d","a","t","a","s","h","e","e","t">>

M_findPumps ==
    <<"f","i","n","d"," ","p","u","m","p","s"," ","f","o","r"," ","m","i","n","e","s">>

M_suitable ==
    <<"p","u","m","p","s"," ","s","u","i","t","a","b","l","e"," ","f","o","r"," ","m","i","n","e","s">>

T_codeLine ==
    <<"C","o","d","e",":"," ","P","E","-","1","2","3","4">>

T_nameLine ==
    <<"N","a","m","e",":"," ","R","e","f","r","e","s","h"," ","T","e","a","r","s">>

T_barcodeLine ==
    <<"B","a","r","c","o","d","e",":"," ","0","9","0","3","8">>

T_longBarcodeLine ==
    <<"B","a","r","c","o","d","e",":"," ","0","9","0","3","8","1">>

T_other ==
    <<"N","a","m","e",":"," ","P","u","m","p">>

R_blank ==
    <<" "," ">>

R_padded ==
    <<" ","N","a","m","e",":"," ","R","e","f","r","e","s","h"," ","T","e","a","r","s"," ">>

A_yes ==
    <<"Y","e","s"," ","-"," ","f","o","u","n","d">>

A_no ==
    <<"N","o"," ","-"," ","n","o","n","e">>

A_couldnt ==
    <<"I"," ","c","o","u","l","d","n","RSQUO","t"," ","f","i","n","d"," ","i","t">>

A_couldntAscii ==
    <<"I"," ","c","o","u","l","d","n","'","t"," ","f","i","n","d"," ","i","t">>

S_lookUp ==
    <<"l","o","o","k"," ","u","p">>

S_lookup ==
    <<"l","o","o","k","u","p">>

S_find ==
    <<"f","i","n","d">>

S_search ==
    <<"s","e","a","r","c","h">>

S_showMe ==
    <<"s","h","o","w"," ","m","e">>

\* rag.searchHybrid(ragQuery, 10)
HybridLimit == 10

\* FilterSchema: keep_chunk_ids: z.array(z.number()).max(8)
MaxKeep == 8

\* rows the end-to-end specification lets retrieval return
MaxRetrieved == 2

\* a chunk id no row of the store has
BogusId == 99

\* RagRow (doc_type, entity_table and entity_id play no part in run)
Row(i) ==
    [chunk_id   |-> i,
     title      |-> <<"T">> \o NatStr(i),
     chunk_text |-> IF i = 1 THEN T_codeLine
                    ELSE IF i = 2 THEN T_nameLine
                    ELSE IF i = 3 THEN T_barcodeLine
                    ELSE IF i \in 7..16 THEN T_longBarcodeLine
                    ELSE T_other]

\* the first n rows of the store in retrieval order
TopRows(n) == [i \in 1..n |-> Row(i)]

NoRewrite == [kind |-> "none", rag_query |-> <<>>]

\* what the rewrite chain can do: throw (model error or timeout), or return
\* a model response whose rag_query the parser checks against RagQuerySchema
RewriteOutcomes ==
    {[kind |-> "threw", rag_query |-> <<>>]}
        \cup {[kind |-> "response", rag_query |-> q] : q \in {<<>>, R_blank, R_padded}}

\* a citation as a candidate answer claims it
Cite(id) == [chunk_id |-> id, title |-> <<"?">>]

CiteLists(fm) ==
    {<<>>, <<Cite(BogusId)>>}
        \cup (IF Len(fm) > 0
              THEN {<<Cite(fm[1].chunk_id)>>, <<Cite(fm[1].chunk_id), Cite(BogusId)>>}
              ELSE {})

\* AnswerOutput values the answer parser can return (AnswerSchema)
Candidate(a, g, c, cites) ==
    [answer         |-> a,
     matches        |-> <<Row(BogusId)>>,
     citations      |-> cites,
     grounded       |-> g,
     confidence     |-> c,
     missing_data   |-> <<>>,
     next_questions |-> <<>>]

Candidates(fm) ==
    {Candidate(a, g, c, cites) :
        a \in {A_yes, A_no}, g \in BOOLEAN, c \in {3, 9}, cites \in CiteLists(fm)}

(***************************************************************************)
(* AgentService.run                                                        *)
(***************************************************************************)
\* RagQuerySchema: rag_query: z.string().min(1)
RagQuerySchemaOk(r) == Len(r.rag_query) >= 1

\* RewrittenQuery without "|| message"
RewrittenQueryNoFallback(msg, r) ==
    IF r.kind = "threw" \/ ~RagQuerySchemaOk(r) THEN msg ELSE Trim(r.rag_query)

\* lines 408-433: the query after the rewrite attempt
RewrittenQuery(msg, r) ==
    IF r.kind = "threw" \/ ~RagQuerySchemaOk(r) THEN msg
    ELSE IF Trim(r.rag_query) # <<>> THEN Trim(r.rag_query)
    ELSE msg

\* /barcode|code|look up|lookup|find|search|show me/i.test(message)
IsIdentifierQuery(msg) ==
    \E w \in {S_barcode, S_code, S_lookUp, S_lookup, S_find, S_search, S_showMe} :
        Includes(ToLowerCase(msg), w)

\* KeepRows with the test negated
KeepRowsInverted(ms, ids) == SelectSeq(ms, LAMBDA m : m.chunk_id \notin ids)

\* matches.filter((m) => keep.has(Number(m.chunk_id)))
KeepRows(ms, ids) == SelectSeq(ms, LAMBDA m : m.chunk_id \in ids)

\* FallbackIfEmpty without the identifier branch
FallbackAlwaysTop(msg, ms, kept) == IF Len(kept) > 0 THEN kept ELSE SubSeq(ms, 1, 1)

\* lines 467-475
FallbackIfEmpty(msg, ms, kept) ==
    IF Len(kept) > 0 THEN kept
    ELSE IF IsIdentifierQuery(msg) THEN <<>>
    ELSE SubSeq(ms, 1, 1)

FilterMatches(msg, ms, ids) == FallbackIfEmpty(msg, ms, KeepRows(ms, ids))

\* PickWinner with >= for >
PickWinnerTiesToV2(s1, s2) == IF s2 >= s1 THEN "v2" ELSE "v1"

\* lines 547-550
PickWinner(s1, s2) == IF s2 > s1 THEN "v2" ELSE "v1"

\* Assemble with the winner's fields spread last: its own matches survive
AssembleOwnMatches(out, fm) ==
    [out EXCEPT !.citations = IF Len(out.citations) > 0
                              THEN [i \in 1..Len(fm) |->
                                       [chunk_id |-> fm[i].chunk_id, title |-> fm[i].title]]
                              ELSE <<>>]

\* Assemble that keeps the winner's own citation list
AssembleTrusting(out, fm) == [out EXCEPT !.matches = fm]

\* lines 559-562
SafeCitations(fm) ==
    [i \in 1..Len(fm) |-> [chunk_id |-> fm[i].chunk_id, title |-> fm[i].title]]

\* Assemble with the citations cut down to the matches the winner cited
AssembleIntersecting(out, fm) ==
    [out EXCEPT !.matches = fm,
                !.citations = SelectSeq(SafeCitations(fm), LAMBDA c :
                                  \E i \in 1..Len(out.citations) :
                                      out.citations[i].chunk_id = c.chunk_id)]

\* lines 564-568
Assemble(out, fm) ==
    [out EXCEPT !.matches = fm,
                !.citations = IF Len(out.citations) > 0 THEN SafeCitations(fm) ELSE <<>>]

Messages == {M_semantic, M_lookupCode}

\* no answer chain has been invoked
NoDuel == [asked1 |-> <<>>, asked2 |-> <<>>, first |-> "none"]

\* the input of chainV1.invoke and of chainV2.invoke (lines 496-501, 515-520)
AnswerInput(question, sources) == [question |-> question, sources |-> sources]

\* lines 495-532: both invoke calls are evaluated, one after the other, in
\* the array handed to Promise.all, before anything is awaited
Invoked(question, sources) ==
    [asked1 |-> <<AnswerInput(question, sources)>>,
     asked2 |-> <<AnswerInput(question, sources)>>,
     first  |-> "none"]

\* chain v resolves: it is the first to do so unless the other already has
Resolved(d, v) == [d EXCEPT !.first = IF @ = "none" THEN v ELSE @]

\* the searchHybrid call of the retriever's own specification is not running
RagIdle ==
    /\ query = <<>>
    /\ limit = 0
    /\ mode = "none"
    /\ tokens = <<>>
    /\ tokenIdx = 0
    /\ lexicalResults = <<>>
    /\ ragRows = <<>>
    /\ rpc = "idle"
    /\ embedCalls = 0
    /\ ragError = "none"
    /\ distOrder = <<>>
    /\ vectorRows = <<>>
    /\ prevRows = <<>>

\* no ingestion run has been started
IngestIdle ==
    /\ documents = {}
    /\ chunkRows = {}
    /\ docSeq = 0
    /\ workers = <<>>

\* the ChatPage component is not mounted
ChatIdle ==
    /\ messages = <<>>
    /\ loading = FALSE
    /\ selected = <<>>
    /\ chatError = FALSE
    /\ inflight = <<>>
    /\ uids = 0

\* AgentService.run has not been called
RunIdle ==
    /\ pc = "idle"
    /\ message = <<>>
    /\ rewritten = NoRewrite
    /\ ragQuery = <<>>
    /\ matches = <<>>
    /\ keep = {}
    /\ filteredMatches = <<>>
    /\ sourcesText = <<>>
    /\ out1 = <<>>
    /\ out2 = <<>>
    /\ score1 = 0
    /\ score2 = 0
    /\ winner = "none"
    /\ result = <<>>
    /\ error = "none"
    /\ duel = NoDuel

\* run(message) is called
InitRun(msgs) ==
    /\ pc = "rewrite"
    /\ message \in msgs
    /\ rewritten = NoRewrite
    /\ ragQuery = message
    /\ matches = <<>>
    /\ keep = {}
    /\ filteredMatches = <<>>
    /\ sourcesText = <<>>
    /\ out1 = <<>>
    /\ out2 = <<>>
    /\ score1 = 0
    /\ score2 = 0
    /\ winner = "none"
    /\ result = <<>>
    /\ error = "none"
    /\ duel = NoDuel
    /\ RagIdle
    /\ IngestIdle
    /\ ChatIdle

Init == InitRun(Messages)

\* 1) the rewrite chain settles (lines 407-433)
Rewrite ==
    /\ pc = "rewrite"
    /\ \E r \in RewriteOutcomes :
          /\ rewritten' = r
          /\ ragQuery' = RewrittenQuery(message, r)
    /\ pc' = "retrieve"
    /\ UNCHANGED <<message, matches, keep, filteredMatches, sourcesText, out1, out2,
                   score1, score2, winner, result, error, duel>>
    /\ UNCHANGED <<ragVars, ingestVars, chatVars>>

\* 2) rag.searchHybrid(ragQuery, 10) resolves with at most HybridLimit rows,
\*    no two with the same chunk_id (line 436); the try block's locals are gone
Retrieve(sizes) ==
    /\ pc = "retrieve"
    /\ \E n \in sizes : n <= HybridLimit /\ matches' = TopRows(n)
    /\ rewritten' = NoRewrite
    /\ pc' = "filter"
    /\ UNCHANGED <<message, ragQuery, keep, filteredMatches, sourcesText, out1, out2,
                   score1, score2, winner, result, error, duel>>
    /\ UNCHANGED <<ragVars, ingestVars, chatVars>>

\*    ... or rejects
RetrieveReject ==
    /\ pc = "retrieve"
    /\ rewritten' = NoRewrite
    /\ pc' = "rejected"
    /\ error' = "retrieval"
    /\ UNCHANGED <<message, ragQuery, matches, keep, filteredMatches, sourcesText,
                   out1, out2, score1, score2, winner, result, duel>>
    /\ UNCHANGED <<ragVars, ingestVars, chatVars>>

\* 3) no rows: the filter chain is not invoked (lines 439-441, 481)
FilterSkip ==
    /\ pc = "filter"
    /\ Len(matches) = 0
    /\ filteredMatches' = matches
    /\ sourcesText' = BuildSourcesText(matches)
    /\ duel' = Invoked(message, sourcesText')
    /\ pc' = "answer"
    /\ UNCHANGED <<message, rewritten, ragQuery, matches, keep, out1, out2,
                   score1, score2, winner, result, error>>
    /\ UNCHANGED <<ragVars, ingestVars, chatVars>>

\*    the filter chain resolves with keep_chunk_ids = keep; a list longer than
\*    MaxKeep fails FilterSchema and the chain rejects (lines 442-476, 481)
Filter(keeps) ==
    /\ pc = "filter"
    /\ Len(matches) > 0
    /\ \E ids \in keeps :
          IF Cardinality(ids) > MaxKeep
          THEN /\ pc' = "rejected"
               /\ error' = "filter"
               /\ UNCHANGED <<keep, filteredMatches, sourcesText, duel>>
          ELSE /\ keep' = ids
               /\ filteredMatches' = FilterMatches(message, matches, ids)
               /\ sourcesText' = BuildSourcesText(filteredMatches')
               /\ duel' = Invoked(message, sourcesText')
               /\ pc' = "answer"
               /\ error' = error
    /\ UNCHANGED <<message, rewritten, ragQuery, matches, out1, out2,
                   score1, score2, winner, result>>
    /\ UNCHANGED <<ragVars, ingestVars, chatVars>>

\*    the filter chain rejects (model error)
FilterReject ==
    /\ pc = "filter"
    /\ Len(matches) > 0
    /\ pc' = "rejected"
    /\ error' = "filter"
    /\ UNCHANGED <<message, rewritten, ragQuery, matches, keep, filteredMatches,
                   sourcesText, out1, out2, score1, score2, winner, result, duel>>
    /\ UNCHANGED <<ragVars, ingestVars, chatVars>>

\* 4) chainV1 and chainV2 were invoked together (Promise.all, lines 495-532);
\*    each resolves on its own
AnswerV1(cands) ==
    /\ pc = "answer"
    /\ out1 = <<>>
    /\ \E c \in cands : out1' = <<c>>
    /\ duel' = Resolved(duel, "v1")
    /\ UNCHANGED <<pc, message, rewritten, ragQuery, matches, keep, filteredMatches,
                   sourcesText, out2, score1, score2, winner, result, error>>
    /\ UNCHANGED <<ragVars, ingestVars, chatVars>>

AnswerV2(cands) ==
    /\ pc = "answer"
    /\ out2 = <<>>
    /\ \E c \in cands : out2' = <<c>>
    /\ duel' = Resolved(duel, "v2")
    /\ UNCHANGED <<pc, message, rewritten, ragQuery, matches, keep, filteredMatches,
                   sourcesText, out1, score1, score2, winner, result, error>>
    /\ UNCHANGED <<ragVars, ingestVars, chatVars>>

\* AnswerReject with Promise.allSettled: the surviving candidate is returned
AnswerRejectFallback ==
    /\ pc = "answer"
    /\ \E v \in {"answer_v1", "answer_v2"} :
          /\ v = "answer_v1" => out1 = <<>>
          /\ v = "answer_v2" => out2 = <<>>
          /\ error' = v
          /\ IF v = "answer_v1" /\ out2 # <<>>
             THEN pc' = "done" /\ result' = <<Assemble(out2[1], filteredMatches)>>
             ELSE IF v = "answer_v2" /\ out1 # <<>>
             THEN pc' = "done" /\ result' = <<Assemble(out1[1], filteredMatches)>>
             ELSE pc' = "rejected" /\ result' = result
    /\ UNCHANGED <<message, rewritten, ragQuery, matches, keep, filteredMatches,
                   sourcesText, out1, out2, score1, score2, winner, duel>>
    /\ UNCHANGED <<ragVars, ingestVars, chatVars>>

\*    either chain rejects: Promise.all rejects and so does run
AnswerReject ==
    /\ pc = "answer"
    /\ \E v \in {"answer_v1", "answer_v2"} :
          /\ v = "answer_v1" => out1 = <<>>
          /\ v = "answer_v2" => out2 = <<>>
          /\ error' = v
    /\ pc' = "rejected"
    /\ UNCHANGED <<message, rewritten, ragQuery, matches, keep, filteredMatches,
                   sourcesText, out1, out2, score1, score2, winner, result, duel>>
    /\ UNCHANGED <<ragVars, ingestVars, chatVars>>

\* Settle with a tie going to the chain that resolved first
SettleFirstWins(s1, s2) ==
    /\ score1' = s1
    /\ score2' = s2
    /\ winner' = IF s2 > s1 THEN "v2" ELSE IF s1 > s2 THEN "v1" ELSE duel.first
    /\ result' = <<Assemble(IF winner' = "v2" THEN out2[1] ELSE out1[1],
                            filteredMatches)>>

\* lines 547-568 for the scores s1 and s2
Settle(s1, s2) ==
    /\ score1' = s1
    /\ score2' = s2
    /\ winner' = PickWinner(s1, s2)
    /\ result' = <<Assemble(IF winner' = "v2" THEN out2[1] ELSE out1[1],
                            filteredMatches)>>

\* Arbitrate with Promise.race: it goes ahead once chainV1 has resolved
ArbitrateEarly ==
    /\ pc = "answer"
    /\ out1 # <<>>
    /\ Settle(ScoreAnswer(out1[1], filteredMatches, sourcesText, message),
              ScoreAnswer(IF out2 # <<>> THEN out2[1] ELSE out1[1],
                          filteredMatches, sourcesText, message))
    /\ pc' = "done"
    /\ UNCHANGED <<message, rewritten, ragQuery, matches, keep, filteredMatches,
                   sourcesText, out1, out2, error, duel>>
    /\ UNCHANGED <<ragVars, ingestVars, chatVars>>

\* 5) both candidates are in: score, pick the winner, assemble (lines 534-568)
Arbitrate ==
    /\ pc = "answer"
    /\ out1 # <<>>
    /\ out2 # <<>>
    /\ Settle(ScoreAnswer(out1[1], filteredMatches, sourcesText, message),
              ScoreAnswer(out2[1], filteredMatches, sourcesText, message))
    /\ pc' = "done"
    /\ UNCHANGED <<message, rewritten, ragQuery, matches, keep, filteredMatches,
                   sourcesText, out1, out2, error, duel>>
    /\ UNCHANGED <<ragVars, ingestVars, chatVars>>

\* what the filter model may answer in the end-to-end specification
KeepsSmall == SUBSET {1, 2, BogusId}

Next ==
    \/ Rewrite
    \/ Retrieve(0..MaxRetrieved)
    \/ RetrieveReject
    \/ FilterSkip
    \/ Filter(KeepsSmall)
    \/ FilterReject
    \/ AnswerV1(Candidates(filteredMatches))
    \/ AnswerV2(Candidates(filteredMatches))
    \/ AnswerReject
    \/ Arbitrate

Spec == Init /\ [][Next]_vars

(***************************************************************************)
(* The filter step over full retrieval results: up to HybridLimit rows,    *)
(* keep lists up to and past MaxKeep, one candidate answer per chain       *)
(***************************************************************************)
MessagesWide ==
    {M_semantic, M_lookupCode, M_codeQuestion, M_findPumps, M_suitable, M_bareCode}

KeepsWide ==
    {1..k : k \in 0..(MaxKeep + 1)}
        \cup {(HybridLimit - MaxKeep + 1)..HybridLimit,
              {BogusId}, {2, BogusId}, (1..(MaxKeep - 1)) \cup {BogusId}}

OneCandidate == {Candidate(A_yes, TRUE, 9, <<Cite(BogusId)>>)}

InitFilter == InitRun(MessagesWide)

NextFilter ==
    \/ Rewrite
    \/ Retrieve(0..HybridLimit)
    \/ RetrieveReject
    \/ FilterSkip
    \/ Filter(KeepsWide)
    \/ FilterReject
    \/ AnswerV1(OneCandidate)
    \/ AnswerV2(OneCandidate)
    \/ AnswerReject
    \/ Arbitrate

SpecFilter == InitFilter /\ [][NextFilter]_vars

(***************************************************************************)
(* scoreAnswer on pairs of candidates that differ in one field             *)
(***************************************************************************)
ScoreQuestions == {M_lookupCode, M_codeQuestion, M_semantic, M_barcode, M_suitable}

ScoreMatchLists == {<<>>, TopRows(1), TopRows(2), <<Row(3)>>}

ScoreAnswers == {A_yes, A_no, A_couldnt, A_couldntAscii}

ScoreConfidences == {0, 3, 7, 9, 10}

ScoreCandidates(fm) ==
    {Candidate(a, g, c, cites) :
        a \in ScoreAnswers, g \in BOOLEAN, c \in ScoreConfidences,
        cites \in CiteLists(fm)}

\* a question, the filtered matches and one parsed candidate are at hand
InitScore ==
    /\ pc = "pair"
    /\ message \in ScoreQuestions
    /\ rewritten = NoRewrite
    /\ ragQuery = message
    /\ matches \in ScoreMatchLists
    /\ keep = {}
    /\ filteredMatches = matches
    /\ sourcesText = BuildSourcesText(matches)
    /\ out1 \in {<<c>> : c \in ScoreCandidates(matches)}
    /\ out2 = <<>>
    /\ score1 = 0
    /\ score2 = 0
    /\ winner = "none"
    /\ result = <<>>
    /\ error = "none"
    /\ duel = Resolved(Invoked(message, sourcesText), "v1")
    /\ RagIdle
    /\ IngestIdle
    /\ ChatIdle

\* lines 534-545 on out1 and a second candidate
ScorePair(other) ==
    /\ out2' = <<other>>
    /\ score1' = ScoreAnswer(out1[1], filteredMatches, sourcesText, message)
    /\ score2' = ScoreAnswer(other, filteredMatches, sourcesText, message)
    /\ pc' = "scored"
    /\ UNCHANGED <<message, rewritten, ragQuery, matches, keep, filteredMatches,
                   sourcesText, out1, winner, result, error, duel>>
    /\ UNCHANGED <<ragVars, ingestVars, chatVars>>

\* the second candidate is the first with another citation list
ScoreOtherCitations ==
    /\ pc = "pair"
    /\ \E cites \in CiteLists(filteredMatches) :
          ScorePair([out1[1] EXCEPT !.citations = cites])

\* the second candidate is the first with another answer text
ScoreOtherAnswer ==
    /\ pc = "pair"
    /\ \E a \in ScoreAnswers : ScorePair([out1[1] EXCEPT !.answer = a])

NextScore == ScoreOtherCitations \/ ScoreOtherAnswer

SpecScore == InitScore /\ [][NextScore]_vars

(***************************************************************************)
(* RagService: looksLikeIdentifier, extractIdentifierTokens                *)
(***************************************************************************)
S_name ==
    <<"n","a","m","e">>

\* /\b<w>\b/i.test(s)
HasWord(s, w) ==
    \E i \in 1..Len(s) :
        /\ LiteralAt(s, i, w)
        /\ IsBoundary(s, i - 1)
        /\ IsBoundary(s, i + Len(w) - 1)

\* \b\d{4,}\b matches s[i..e]: a whole word of four or more digits
DigitTokenAt(s, i, e) ==
    /\ e - i >= 3
    /\ \A k \in i..e : IsDigit(s[k])
    /\ IsBoundary(s, i - 1)
    /\ IsBoundary(s, e)

DigitTokenSpans(s) ==
    {sp \in (1..Len(s)) \X (1..Len(s)) : DigitTokenAt(s, sp[1], sp[2])}

FirstSpan(spans) == CHOOSE sp \in spans : \A o \in spans : sp[1] <= o[1]

\* the matches in the order matchAll yields them
RECURSIVE TokensInOrder(_, _)
TokensInOrder(s, spans) ==
    IF spans = {} THEN <<>>
    ELSE <<SubSeq(s, FirstSpan(spans)[1], FirstSpan(spans)[2])>>
             \o TokensInOrder(s, spans \ {FirstSpan(spans)})

\* [a-z0-9\/-] under /i
IsCodeTail(c) == IsAlnum(c) \/ c \in {"/", "-"}

\* the last position of the run of [a-z0-9] that starts at i
AlnumRunEnd(s, i) == LeastOr({k \in i..Len(s) : ~IsAlnum(s[k])}, Len(s) + 1) - 1

\* where /\b[a-z0-9]+[-:][a-z0-9\/-]+\b/i can end when it starts at i and
\* finds its separator at j
CodeTokenEndsVia(s, i, j) ==
    IF /\ IsAlnum(s[i])
       /\ IsBoundary(s, i - 1)
       /\ j <= Len(s)
       /\ s[j] \in {"-", ":"}
    THEN {e \in (j + 1)..Len(s) :
             /\ \A k \in (j + 1)..e : IsCodeTail(s[k])
             /\ IsBoundary(s, e)}
    ELSE {}

\* [a-z0-9]+ takes the whole run: only then can the separator follow
CodeTokenEnds(s, i) == CodeTokenEndsVia(s, i, AlnumRunEnd(s, i) + 1)

\* s.matchAll(/\b[a-z0-9]+[-:][a-z0-9\/-]+\b/gi) from position p on: the
\* leftmost match, as long as it can be, then the matches after it
RECURSIVE CodeTokensFrom(_, _)
TokenThenRest(s, i, e) == <<SubSeq(s, i, e)>> \o CodeTokensFrom(s, e + 1)

CodeTokensAt(s, starts) ==
    IF starts = {} THEN <<>>
    ELSE TokenThenRest(s, Least(starts), Greatest(CodeTokenEnds(s, Least(starts))))

CodeTokensFrom(s, p) == CodeTokensAt(s, {i \in p..Len(s) : CodeTokenEnds(s, i) # {}})

\* lines 141-151 on the trimmed query
LooksLikeTrimmed(s) ==
    \/ HasWord(s, S_barcode) /\ DigitTokenSpans(s) # {}
    \/ HasWord(s, S_code)
    \/ \E i \in 1..Len(s) : CodeTokenEnds(s, i) # {}

LooksLikeIdentifier(q) == LooksLikeTrimmed(Trim(q))

\* the first occurrences among xs[1..n], in order ([...new Set(xs)])
RECURSIVE DedupUpTo(_, _)
DedupUpTo(xs, n) ==
    IF n = 0 THEN <<>>
    ELSE DedupUpTo(xs, n - 1)
           \o (IF \E k \in 1..(n - 1) : xs[k] = xs[n] THEN <<>> ELSE <<xs[n]>>)

Min(a, b) == IF a < b THEN a ELSE b

\* xs.slice(0, n)
Slice(xs, n) == SubSeq(xs, 1, Min(n, Len(xs)))

\* out.slice(0, 5)
MaxTokens == 5

\* [...new Set(all)].filter(Boolean).slice(0, 5)
UniqueTokens(all) ==
    Slice(SelectSeq(DedupUpTo(all, Len(all)), LAMBDA t : t # <<>>), MaxTokens)

TokensOfTrimmed(s) ==
    UniqueTokens(TokensInOrder(s, DigitTokenSpans(s)) \o CodeTokensFrom(s, 1) \o <<s>>)

ExtractIdentifierTokens(q) == TokensOfTrimmed(Trim(q))

(***************************************************************************)
(* RagService: the store, searchLexical, searchVector, search              *)
(***************************************************************************)
\* chunks in the store, with chunk ids 1..StoreSize
StoreSize == 42

\* rag_documents.doc_type of the document of chunk i
DocType(i) ==
    IF i \in {1, 2, 5} THEN "product"
    ELSE IF i \in {3, 6} \/ i \in 7..16 THEN "material"
    ELSE IF i = 4 THEN "schema"
    ELSE "dictionary"

\* rag_documents.raw_text of the document of chunk i (one chunk a document)
RawText(i) == Row(i).chunk_text

\* .replace(/^["']|["']$/g, '')
StripHead(s) == IF s # <<>> /\ s[1] \in {"\"", "'"} THEN Tail(s) ELSE s

StripTail(s) ==
    IF s # <<>> /\ s[Len(s)] \in {"\"", "'"} THEN SubSeq(s, 1, Len(s) - 1) ELSE s

\* extractNameHint(q) ?? q
NameHintOr(q) ==
    IF {i \in 1..Len(q) : NameMatchesAt(q, i, S_name)} = {} THEN q
    ELSE StripTail(StripHead(NameAfter(q, S_name)))

\* raw_text ilike '%' || hint || '%' (hint holds no LIKE wildcard)
ILike(raw, hint) == Includes(ToLowerCase(raw), ToLowerCase(hint))

\* the chunks the where clause of searchLexical accepts
LexicalHits(hint) ==
    {i \in 1..StoreSize :
        DocType(i) \in {"product", "material"} /\ ILike(RawText(i), hint)}

RowsOf(ids) == [k \in 1..Len(ids) |-> Row(ids[k])]

RECURSIVE SortUp(_)
SortUp(S) == IF S = {} THEN <<>> ELSE <<Least(S)>> \o SortUp(S \ {Least(S)})

RECURSIVE SortDown(_)
SortDown(S) == IF S = {} THEN <<>> ELSE <<Greatest(S)>> \o SortDown(S \ {Greatest(S)})

\* what a query with a limit and no order by may return: any n of the
\* qualifying chunks `ids`, each once; of the orders the store may use, the
\* model takes two, by id upwards and downwards
RowLists(ids, n) ==
    {RowsOf(SortUp(S)) : S \in {T \in SUBSET ids : Cardinality(T) = n}}
        \cup {RowsOf(SortDown(S)) : S \in {T \in SUBSET ids : Cardinality(T) = n}}

RowListsUpTo(ids, lim) == RowLists(ids, Min(lim, Cardinality(ids)))

\* the results searchLexical(t, lim) can resolve with
SearchLexical(t, lim) == RowListsUpTo(LexicalHits(NameHintOr(t)), lim)

\* limit 40 of the ranked window
VectorWindow == 40

\* case doc_type when 'product' then 1 ...
DocTypePriority(t) ==
    CASE t = "product" -> 1
      [] t = "material" -> 2
      [] t = "dictionary" -> 3
      [] t = "schema" -> 4
      [] OTHER -> 5

\* orders of the chunks by distance to the query's embedding
Rotation(k) == [i \in 1..StoreSize |-> ((i + k - 1) % StoreSize) + 1]

Descending == [i \in 1..StoreSize |-> StoreSize + 1 - i]

DistOrders == {Rotation(0), Rotation(5), Descending}

\* the ranked window: the VectorWindow nearest chunks of the four doc types
Ranked(order) ==
    Slice(SelectSeq(order, LAMBDA i :
              DocType(i) \in {"product", "material", "schema", "dictionary"}),
          VectorWindow)

OfPriority(ranked, p) == SelectSeq(ranked, LAMBDA i : DocTypePriority(DocType(i)) = p)

\* ByPriority without the outer order by
ByPriorityUnsorted(ranked) == ranked

\* order by doc-type priority, dist
ByPriority(ranked) ==
    OfPriority(ranked, 1) \o OfPriority(ranked, 2) \o OfPriority(ranked, 3)
        \o OfPriority(ranked, 4) \o OfPriority(ranked, 5)

\* searchVector(query, lim) when the embedding puts the chunks in `order`
SearchVector(order, lim) == RowsOf(Slice(ByPriority(Ranked(order)), lim))

\* search(query, lim): the same statement as searchVector
Search(order, lim) == RowsOf(Slice(ByPriority(Ranked(order)), lim))

(***************************************************************************)
(* RagService.searchHybrid                                                 *)
(***************************************************************************)
\* the rows of a Map filled by dedup.set(Number(r.chunk_id), r) over rows[1..n]
\* (rows with one chunk_id are the same row of the store)
RECURSIVE DedupRowsUpTo(_, _)
DedupRowsUpTo(rows, n) ==
    IF n = 0 THEN <<>>
    ELSE DedupRowsUpTo(rows, n - 1)
           \o (IF \E k \in 1..(n - 1) : rows[k].chunk_id = rows[n].chunk_id
               THEN <<>> ELSE <<rows[n]>>)

\* DedupRows without the Map
DedupRowsNone(rows) == rows

DedupRows(rows) == DedupRowsUpTo(rows, Len(rows))

Q_barcodeOnly ==
    <<"b","a","r","c","o","d","e"," ","o","f"," ","r","e","f","r","e","s","h"," ","t","e","a","r","s">>

Q_digits ==
    <<"0","9","0","3","8">>

Q_token ==
    <<"P","E","-","1","2","3","4">>

Q_codeName ==
    <<"c","o","d","e"," ","n","a","m","e"," ","P","u","m","p">>

Q_mixed ==
    <<"P","E","-","1","2","3","4"," ","n","a","m","e"," ","P","u","m","p">>

Q_encode ==
    <<"e","n","c","o","d","e"," ","1","2"," ","i","t","e","m","s">>

RagQueries ==
    {M_lookupCode, M_barcode, M_semantic, M_suitable,
     Q_barcodeOnly, Q_digits, Q_token, Q_codeName, Q_mixed, Q_encode}

RagLimits == {1, 2, HybridLimit}

\* searchHybrid(query, limit) is called; the embedding model maps the query
\* to a vector that puts the chunks in distOrder
InitRag ==
    /\ pc = "idle"
    /\ message = <<>>
    /\ rewritten = NoRewrite
    /\ ragQuery = <<>>
    /\ matches = <<>>
    /\ keep = {}
    /\ filteredMatches = <<>>
    /\ sourcesText = <<>>
    /\ out1 = <<>>
    /\ out2 = <<>>
    /\ score1 = 0
    /\ score2 = 0
    /\ winner = "none"
    /\ result = <<>>
    /\ error = "none"
    /\ duel = NoDuel
    /\ query \in RagQueries
    /\ limit \in RagLimits
    /\ mode = "none"
    /\ tokens = <<>>
    /\ tokenIdx = 0
    /\ lexicalResults = <<>>
    /\ ragRows = <<>>
    /\ rpc = "start"
    /\ embedCalls = 0
    /\ ragError = "none"
    /\ distOrder \in DistOrders
    /\ vectorRows = <<>>
    /\ prevRows = <<>>
    /\ IngestIdle
    /\ ChatIdle

\* lines 173-179 and 199: the mode is chosen and the first call issued:
\* searchLexical for the first token, or search, which calls bedrock.embed
HybridStart ==
    /\ rpc = "start"
    /\ IF LooksLikeIdentifier(query)
       THEN /\ mode' = "lexical"
            /\ tokens' = ExtractIdentifierTokens(query)
            /\ tokenIdx' = 1
            /\ rpc' = "lexical"
            /\ UNCHANGED embedCalls
       ELSE /\ mode' = "vector"
            /\ rpc' = "embed"
            /\ embedCalls' = embedCalls + 1
            /\ UNCHANGED <<tokens, tokenIdx>>
    /\ UNCHANGED <<query, limit, lexicalResults, ragRows, ragError, distOrder,
                   vectorRows, prevRows>>
    /\ UNCHANGED <<runVars, ingestVars, chatVars>>

\* line 181 and the end of the for loop
LoopEnds(rows) == Len(rows) >= limit \/ tokenIdx = Len(tokens)

\* EnoughLexical with the rows counted before the dedup
EnoughLexicalRaw(rows) == Len(rows) >= Min(3, limit)

\* line 188
EnoughLexical(rows) == Len(DedupRows(rows)) >= Min(3, limit)

\* searchLexical(t, limit) resolves and the loop goes on to the next token
LexicalMore ==
    /\ rpc = "lexical"
    /\ \E rows \in SearchLexical(tokens[tokenIdx], limit) :
          /\ ~LoopEnds(lexicalResults \o rows)
          /\ lexicalResults' = lexicalResults \o rows
    /\ tokenIdx' = tokenIdx + 1
    /\ UNCHANGED <<query, limit, mode, tokens, ragRows, rpc, embedCalls, ragError,
                   distOrder, vectorRows, prevRows>>
    /\ UNCHANGED <<runVars, ingestVars, chatVars>>

\* ... the loop ends with enough distinct rows: they are returned (185-190)
LexicalEnough ==
    /\ rpc = "lexical"
    /\ \E rows \in SearchLexical(tokens[tokenIdx], limit) :
          /\ LoopEnds(lexicalResults \o rows)
          /\ EnoughLexical(lexicalResults \o rows)
          /\ lexicalResults' = lexicalResults \o rows
          /\ ragRows' = Slice(DedupRows(lexicalResults \o rows), limit)
    /\ rpc' = "returned"
    /\ UNCHANGED <<query, limit, mode, tokens, tokenIdx, embedCalls, ragError,
                   distOrder, vectorRows, prevRows>>
    /\ UNCHANGED <<runVars, ingestVars, chatVars>>

\* ... the loop ends with too few: searchVector is called, which calls
\* bedrock.embed (lines 193, 57)
LexicalShort ==
    /\ rpc = "lexical"
    /\ \E rows \in SearchLexical(tokens[tokenIdx], limit) :
          /\ LoopEnds(lexicalResults \o rows)
          /\ ~EnoughLexical(lexicalResults \o rows)
          /\ lexicalResults' = lexicalResults \o rows
    /\ rpc' = "embed"
    /\ embedCalls' = embedCalls + 1
    /\ UNCHANGED <<query, limit, mode, tokens, tokenIdx, ragRows, ragError,
                   distOrder, vectorRows, prevRows>>
    /\ UNCHANGED <<runVars, ingestVars, chatVars>>

\* bedrock.embed resolves and the ranked query is sent (lines 57-60, 97-99)
EmbedResolve ==
    /\ rpc = "embed"
    /\ rpc' = "query"
    /\ UNCHANGED <<query, limit, mode, tokens, tokenIdx, lexicalResults, ragRows,
                   embedCalls, ragError, distOrder, vectorRows, prevRows>>
    /\ UNCHANGED <<runVars, ingestVars, chatVars>>

\* EmbedReject with the error caught and the lexical rows returned
EmbedRejectSwallowed ==
    /\ rpc = "embed"
    /\ rpc' = "returned"
    /\ ragError' = "embed"
    /\ ragRows' = Slice(DedupRows(lexicalResults), limit)
    /\ UNCHANGED <<query, limit, mode, tokens, tokenIdx, lexicalResults,
                   embedCalls, distOrder, vectorRows, prevRows>>
    /\ UNCHANGED <<runVars, ingestVars, chatVars>>

\* bedrock.embed rejects: nothing catches it in searchVector, search or
\* searchHybrid
EmbedReject ==
    /\ rpc = "embed"
    /\ rpc' = "rejected"
    /\ ragError' = "embed"
    /\ UNCHANGED <<query, limit, mode, tokens, tokenIdx, lexicalResults, ragRows,
                   embedCalls, distOrder, vectorRows, prevRows>>
    /\ UNCHANGED <<runVars, ingestVars, chatVars>>

\* searchVector resolves: its rows join the lexical ones (lines 193-195)
VectorFallback ==
    /\ rpc = "query"
    /\ mode = "lexical"
    /\ vectorRows' = SearchVector(distOrder, limit)
    /\ ragRows' = Slice(DedupRows(lexicalResults \o vectorRows'), limit)
    /\ rpc' = "returned"
    /\ UNCHANGED <<query, limit, mode, tokens, tokenIdx, lexicalResults, embedCalls,
                   ragError, distOrder, prevRows>>
    /\ UNCHANGED <<runVars, ingestVars, chatVars>>

\* this.search(query, limit) resolves (line 199)
VectorFirst ==
    /\ rpc = "query"
    /\ mode = "vector"
    /\ vectorRows' = Search(distOrder, limit)
    /\ ragRows' = vectorRows'
    /\ rpc' = "returned"
    /\ UNCHANGED <<query, limit, mode, tokens, tokenIdx, lexicalResults, embedCalls,
                   ragError, distOrder, prevRows>>
    /\ UNCHANGED <<runVars, ingestVars, chatVars>>

\* a store query rejects: so does searchHybrid
StoreReject ==
    /\ rpc \in {"lexical", "query"}
    /\ rpc' = "rejected"
    /\ ragError' = "store"
    /\ UNCHANGED <<query, limit, mode, tokens, tokenIdx, lexicalResults, ragRows,
                   embedCalls, distOrder, vectorRows, prevRows>>
    /\ UNCHANGED <<runVars, ingestVars, chatVars>>

\* searchHybrid is called a second time with the same arguments, the store
\* and the embedding of the query being what they were
CallAgain ==
    /\ rpc = "returned"
    /\ prevRows = <<>>
    /\ prevRows' = <<ragRows>>
    /\ mode' = "none"
    /\ tokens' = <<>>
    /\ tokenIdx' = 0
    /\ lexicalResults' = <<>>
    /\ ragRows' = <<>>
    /\ vectorRows' = <<>>
    /\ embedCalls' = 0
    /\ rpc' = "start"
    /\ UNCHANGED <<query, limit, ragError, distOrder>>
    /\ UNCHANGED <<runVars, ingestVars, chatVars>>

NextRag ==
    \/ HybridStart
    \/ LexicalMore
    \/ LexicalEnough
    \/ LexicalShort
    \/ EmbedResolve
    \/ EmbedReject
    \/ VectorFallback
    \/ VectorFirst
    \/ StoreReject
    \/ CallAgain

SpecRag == InitRag /\ [][NextRag]_vars

(***************************************************************************)
(* IngestService: chunkText, getOrUpsertDocument, rebuildChunks            *)
(* A raw text is known by a name and its length once cleaned; a chunk is   *)
(* the slice [from, to) of the text it was cut from.                       *)
(***************************************************************************)
MaxChars == 1400

Overlap == 200

\* Math.min(cleaned.length, i + maxChars)
ChunkEnd(len, i) == IF len < i + MaxChars THEN len ELSE i + MaxChars

\* Math.max(0, end - overlap)
NextStart(end) == IF end - Overlap < 0 THEN 0 ELSE end - Overlap

RECURSIVE ChunkSpans(_, _)
\* the while loop of chunkText from offset i
ChunkSpans(len, i) ==
    IF ChunkEnd(len, i) = len
    THEN <<[from |-> i, to |-> len]>>
    ELSE <<[from |-> i, to |-> ChunkEnd(len, i)]>>
             \o ChunkSpans(len, NextStart(ChunkEnd(len, i)))

\* chunkText(raw) with the default maxChars and overlap
ChunkText(raw) ==
    IF raw.len = 0 THEN <<>>
    ELSE [k \in 1..Len(ChunkSpans(raw.len, 0)) |->
             [of   |-> raw.name,
              from |-> ChunkSpans(raw.len, 0)[k].from,
              to   |-> ChunkSpans(raw.len, 0)[k].to]]

RawBlank == [name |-> "blank", len |-> 0]

RawShort == [name |-> "short", len |-> 900]

RawLong == [name |-> "long", len |-> 1401]

RawLonger == [name |-> "longer", len |-> 2700]

MaterialOne == [doc_type |-> "material", entity_table |-> "materials", entity_id |-> "m1"]

MaterialTwo == [doc_type |-> "material", entity_table |-> "materials", entity_id |-> "m2"]

ProductOne == [doc_type |-> "product", entity_table |-> "products", entity_id |-> "p1"]

\* the parameters of one getOrUpsertDocument call and of the rebuildChunks
\* call that follows it
Entity(triple, title, raw) ==
    [doc_type |-> triple.doc_type, entity_table |-> triple.entity_table,
     entity_id |-> triple.entity_id, title |-> title, raw_text |-> raw]

NoEntity == Entity([doc_type |-> "none", entity_table |-> "none", entity_id |-> "none"],
                   "none", RawBlank)

\* what one ingestion run may find in the tenant's tables
Entities ==
    {Entity(t, title, raw) :
        t \in {MaterialOne, MaterialTwo, ProductOne}, title \in {"old", "new"},
        raw \in {RawBlank, RawShort, RawLonger}}

\* two runs over the same tenant
SameEntities == {Entity(MaterialOne, "new", raw) : raw \in {RawShort, RawLong}}

\* how many entities a run goes through
MaxCalls == 2

MaxOverlapCalls == 1

\* a rag_documents row
DocumentRow(id, e) ==
    [id |-> id, doc_type |-> e.doc_type, entity_table |-> e.entity_table,
     entity_id |-> e.entity_id, title |-> e.title, raw_text |-> e.raw_text]

\* a rag_chunks row
ChunkRow(documentId, idx, chunk) ==
    [document_id |-> documentId, chunk_index |-> idx, chunk_text |-> chunk]

\* the rag_chunks rows rebuildChunks writes for a document, in order
ChunkRowsFor(documentId, raw) ==
    [k \in 1..Len(ChunkText(raw)) |-> ChunkRow(documentId, k - 1, ChunkText(raw)[k])]

\* the select of getOrUpsertDocument with doc_type alone in the where clause
ExistingByTypeOnly(docs, e) == {d.id : d \in {x \in docs : x.doc_type = e.doc_type}}

\* select id from rag_documents where doc_type = $1 and entity_table is not
\* distinct from $2 and entity_id is not distinct from $3
Existing(docs, e) ==
    {d.id : d \in {x \in docs : /\ x.doc_type = e.doc_type
                                /\ x.entity_table = e.entity_table
                                /\ x.entity_id = e.entity_id}}

\* an ingestion run between two entities
Worker(state, done) ==
    [pc |-> state, entity |-> NoEntity, docId |-> 0, chunks |-> <<>>, idx |-> 0,
     done |-> done]

\* the stores an ingestion run can start on: empty, or holding ProductOne
\* as an earlier run left it
InitialStores ==
    {[documents |-> {}, chunkRows |-> <<>>, docSeq |-> 0],
     [documents |-> {DocumentRow(1, Entity(ProductOne, "old", RawLong))},
      chunkRows |-> ChunkRowsFor(1, RawLong),
      docSeq    |-> 1]}

\* ingestProductsMaterials is called: once (ws = {1}) or twice, overlapping
InitIngestion(ws) ==
    /\ RunIdle
    /\ RagIdle
    /\ ChatIdle
    /\ \E st \in InitialStores :
          /\ documents = st.documents
          /\ chunkRows = st.chunkRows
          /\ docSeq = st.docSeq
    /\ workers = [w \in 1..2 |-> Worker(IF w \in ws THEN "idle" ELSE "off", 0)]

\* the loop takes the next entity and calls getOrUpsertDocument: the select
\* is sent (lines 303-326, 105-115)
UpsertCall(ws, entities, calls) ==
    \E w \in ws, e \in entities :
        /\ workers[w].pc = "idle"
        /\ workers[w].done < calls
        /\ workers' = [workers EXCEPT ![w].pc = "select", ![w].entity = e]
        /\ UNCHANGED <<documents, chunkRows, docSeq>>
        /\ UNCHANGED <<runVars, ragVars, chatVars>>

\* the select returns: a row (limit 1, any of them) or none (lines 105-117)
SelectExisting(ws) ==
    \E w \in ws :
        /\ workers[w].pc = "select"
        /\ IF Existing(documents, workers[w].entity) = {}
           THEN workers' = [workers EXCEPT ![w].pc = "insert"]
           ELSE \E id \in Existing(documents, workers[w].entity) :
                    workers' = [workers EXCEPT ![w].pc = "update", ![w].docId = id]
        /\ UNCHANGED <<documents, chunkRows, docSeq>>
        /\ UNCHANGED <<runVars, ragVars, chatVars>>

\* the update runs, the id is returned and rebuildChunks is called
\* (lines 117-130, 328)
UpdateDocument(ws) ==
    \E w \in ws :
        /\ workers[w].pc = "update"
        /\ documents' =
              {IF d.id = workers[w].docId
               THEN [d EXCEPT !.title = workers[w].entity.title,
                              !.raw_text = workers[w].entity.raw_text]
               ELSE d : d \in documents}
        /\ workers' = [workers EXCEPT ![w].pc = "delete"]
        /\ UNCHANGED <<chunkRows, docSeq>>
        /\ UNCHANGED <<runVars, ragVars, chatVars>>

\* the insert runs, the new id is returned and rebuildChunks is called
\* (lines 132-141, 328)
InsertDocument(ws) ==
    \E w \in ws :
        /\ workers[w].pc = "insert"
        /\ docSeq' = docSeq + 1
        /\ documents' = documents \cup {DocumentRow(docSeq', workers[w].entity)}
        /\ workers' = [workers EXCEPT ![w].pc = "delete", ![w].docId = docSeq']
        /\ UNCHANGED chunkRows
        /\ UNCHANGED <<runVars, ragVars, chatVars>>

\* rebuildChunks: the delete runs and the text is chunked (lines 145-151)
DeleteChunks(ws) ==
    \E w \in ws :
        /\ workers[w].pc = "delete"
        /\ chunkRows' = SelectSeq(chunkRows, LAMBDA c : c.document_id # workers[w].docId)
        /\ IF ChunkText(workers[w].entity.raw_text) = <<>>
           THEN workers' = [workers EXCEPT ![w] = Worker("idle", @.done + 1)]
           ELSE workers' = [workers EXCEPT ![w].pc = "embed",
                                           ![w].chunks = ChunkText(workers[w].entity.raw_text),
                                           ![w].idx = 0]
        /\ UNCHANGED <<documents, docSeq>>
        /\ UNCHANGED <<runVars, ragVars, chatVars>>

\* titanEmbed(chunk) resolves (line 155)
TitanEmbed(ws) ==
    \E w \in ws :
        /\ workers[w].pc = "embed"
        /\ workers' = [workers EXCEPT ![w].pc = "insertChunk"]
        /\ UNCHANGED <<documents, chunkRows, docSeq>>
        /\ UNCHANGED <<runVars, ragVars, chatVars>>

\* the chunk's insert runs; after the last one rebuildChunks returns
\* (lines 153-165)
InsertChunk(ws) ==
    \E w \in ws :
        /\ workers[w].pc = "insertChunk"
        /\ chunkRows' = Append(chunkRows,
                               ChunkRow(workers[w].docId, workers[w].idx,
                                        workers[w].chunks[workers[w].idx + 1]))
        /\ IF workers[w].idx + 1 < Len(workers[w].chunks)
           THEN workers' = [workers EXCEPT ![w].pc = "embed", ![w].idx = @ + 1]
           ELSE workers' = [workers EXCEPT ![w] = Worker("idle", @.done + 1)]
        /\ UNCHANGED <<documents, docSeq>>
        /\ UNCHANGED <<runVars, ragVars, chatVars>>

\* titanEmbed or the chunk's insert throws: nothing catches it and the run
\* rejects (lines 155-162)
IngestThrow(ws) ==
    \E w \in ws :
        /\ workers[w].pc \in {"embed", "insertChunk"}
        /\ workers' = [workers EXCEPT ![w].pc = "failed"]
        /\ UNCHANGED <<documents, chunkRows, docSeq>>
        /\ UNCHANGED <<runVars, ragVars, chatVars>>

NextIngestion(ws, entities, calls) ==
    \/ UpsertCall(ws, entities, calls)
    \/ SelectExisting(ws)
    \/ UpdateDocument(ws)
    \/ InsertDocument(ws)
    \/ DeleteChunks(ws)
    \/ TitanEmbed(ws)
    \/ InsertChunk(ws)
    \/ IngestThrow(ws)

InitIngest == InitIngestion({1})

NextIngest == NextIngestion({1}, Entities, MaxCalls)

\* one ingestion run
SpecIngest == InitIngest /\ [][NextIngest]_vars

InitOverlap == InitIngestion({1, 2})

NextOverlap == NextIngestion({1, 2}, SameEntities, MaxOverlapCalls)

\* two ingestion runs at the same time
SpecOverlap == InitOverlap /\ [][NextOverlap]_vars

(***************************************************************************)
(* ChatPage: onSend, clearChat, the message click and the auto-select      *)
(* effect.  uid() gives out ids never given before.                        *)
(***************************************************************************)
\* how many ids uid() gives out
MaxUids == 9

ChatMessage(id, role, content, response) ==
    [id |-> id, role |-> role, content |-> content, response |-> response]

\* the assistant messages that carry a response
WithResponse(msgs) ==
    {i \in 1..Len(msgs) : msgs[i].role = "assistant" /\ msgs[i].response}

LastOf(msgs, idxs) == msgs[CHOOSE i \in idxs : \A j \in idxs : j <= i].id

\* the effect of lines 266-278, run after the state changed: with nothing
\* selected, the latest assistant message with a response is selected
AutoSelect(msgs, sel) ==
    IF sel # <<>> THEN sel
    ELSE IF WithResponse(msgs) = {} THEN <<>>
    ELSE <<LastOf(msgs, WithResponse(msgs))>>

\* prev.map(m => m.id === assistantId ? {...m, content, response} : m)
Patched(msgs, id, content, response) ==
    [i \in 1..Len(msgs) |->
        IF msgs[i].id = id
        THEN ChatMessage(id, msgs[i].role, content, response \/ msgs[i].response)
        ELSE msgs[i]]

\* the component mounts (lines 238-261)
InitChat ==
    /\ RunIdle
    /\ RagIdle
    /\ IngestIdle
    /\ messages = <<ChatMessage(1, "assistant", "greeting", FALSE)>>
    /\ loading = FALSE
    /\ selected = <<>>
    /\ chatError = FALSE
    /\ inflight = <<>>
    /\ uids = 1

\* onSend with a non-blank input, up to the await of chatAsk (lines 280-305)
OnSend ==
    /\ ~loading
    /\ uids + 2 <= MaxUids
    /\ chatError' = FALSE
    /\ messages' = messages \o <<ChatMessage(uids + 1, "user", "question", FALSE),
                                 ChatMessage(uids + 2, "assistant", "thinking", FALSE)>>
    /\ loading' = TRUE
    /\ inflight' = <<uids + 2>>
    /\ uids' = uids + 2
    /\ selected' = AutoSelect(messages', selected)
    /\ UNCHANGED <<runVars, ragVars, ingestVars>>

\* chatAsk resolves: the try block's tail and finally (lines 306-321, 333-337)
ResponseArrives ==
    /\ inflight # <<>>
    /\ messages' = Patched(messages, inflight[1], "answer", TRUE)
    /\ selected' = inflight
    /\ loading' = FALSE
    /\ inflight' = <<>>
    /\ UNCHANGED <<chatError, uids>>
    /\ UNCHANGED <<runVars, ragVars, ingestVars>>

\* chatAsk rejects: catch and finally (lines 322-337)
ErrorArrives ==
    /\ inflight # <<>>
    /\ chatError' = TRUE
    /\ messages' = Patched(messages, inflight[1], "apology", FALSE)
    /\ selected' = AutoSelect(messages', selected)
    /\ loading' = FALSE
    /\ inflight' = <<>>
    /\ UNCHANGED uids
    /\ UNCHANGED <<runVars, ragVars, ingestVars>>

\* the Clear button, enabled at all times (lines 347-361, 410)
ClearChat ==
    /\ uids + 1 <= MaxUids
    /\ messages' = <<ChatMessage(uids + 1, "assistant", "greeting", FALSE)>>
    /\ selected' = AutoSelect(messages', <<>>)
    /\ chatError' = FALSE
    /\ uids' = uids + 1
    /\ UNCHANGED <<loading, inflight>>
    /\ UNCHANGED <<runVars, ragVars, ingestVars>>

\* a click on an assistant message that carries a response (lines 441-448)
SelectMessage ==
    /\ \E i \in WithResponse(messages) : selected' = <<messages[i].id>>
    /\ selected' # selected
    /\ UNCHANGED <<messages, loading, chatError, inflight, uids>>
    /\ UNCHANGED <<runVars, ragVars, ingestVars>>

NextChat ==
    \/ OnSend
    \/ ResponseArrives
    \/ ErrorArrives
    \/ ClearChat
    \/ SelectMessage

SpecChat == InitChat /\ [][NextChat]_vars

(***************************************************************************)
(* Properties                                                              *)
(***************************************************************************)
WinnerOut == IF winner = "v2" THEN out2[1] ELSE out1[1]

\* the candidate cites a chunk id that no filtered match has
CitesOutside(out) ==
    \E i \in 1..Len(out.citations) :
        \A j \in 1..Len(filteredMatches) :
            filteredMatches[j].chunk_id # out.citations[i].chunk_id

SameButCitations(a, b) ==
    a.answer = b.answer /\ a.grounded = b.grounded /\ a.confidence = b.confidence

SameButAnswer(a, b) ==
    a.grounded = b.grounded /\ a.confidence = b.confidence /\ a.citations = b.citations

\* C1: every chunk_id of the returned citations is the chunk_id of a returned match
C1_CitationsAmongMatches ==
    pc = "done" =>
        \A i \in 1..Len(result[1].citations) :
            \E j \in 1..Len(result[1].matches) :
                result[1].matches[j].chunk_id = result[1].citations[i].chunk_id

C1_Witness ==
    /\ pc = "done"
    /\ Len(result[1].citations) > 0
    /\ \E i \in 1..Len(WinnerOut.citations) : WinnerOut.citations[i].chunk_id = BogusId

\* C2 (as claimed): a filtered match is among the returned citations exactly
\* when the winner cited its chunk_id, and each returned citation is the
\* {chunk_id, title} of a filtered match
C2_CitationsAreIntersection ==
    pc = "done" =>
        /\ \A j \in 1..Len(filteredMatches) :
              (\E i \in 1..Len(result[1].citations) :
                   result[1].citations[i].chunk_id = filteredMatches[j].chunk_id)
              <=> (\E k \in 1..Len(WinnerOut.citations) :
                       WinnerOut.citations[k].chunk_id = filteredMatches[j].chunk_id)
        /\ \A i \in 1..Len(result[1].citations) :
              \E j \in 1..Len(filteredMatches) :
                  result[1].citations[i] = [chunk_id |-> filteredMatches[j].chunk_id,
                                            title    |-> filteredMatches[j].title]

\* C3 (as claimed): the strictly higher score wins and a tie goes to V2
C3_TieGoesToV2 ==
    pc = "done" =>
        /\ score1 > score2 => winner = "v1"
        /\ score2 > score1 => winner = "v2"
        /\ score1 = score2 => winner = "v2"

\* C3 (amended): the strictly higher score wins and a tie goes to V1
C3_TieGoesToV1 ==
    pc = "done" =>
        /\ score1 > score2 => winner = "v1"
        /\ score2 > score1 => winner = "v2"
        /\ score1 = score2 => winner = "v1"

C3_Witness ==
    /\ pc = "done"
    /\ score1 = score2
    /\ out1 # out2
    /\ winner = "v1"

\* C4 (as claimed): a candidate with a citation outside the filtered matches
\* never wins against a candidate whose citations are all inside
C4_InvalidNeverWins ==
    pc = "done" =>
        /\ (CitesOutside(out1[1]) /\ ~CitesOutside(out2[1])) => winner = "v2"
        /\ (CitesOutside(out2[1]) /\ ~CitesOutside(out1[1])) => winner = "v1"

\* C4 (amended): ... when the two candidates have the same answer text,
\* grounded flag and confidence
C4_InvalidLosesToOtherwiseIdentical ==
    (pc = "done" /\ SameButCitations(out1[1], out2[1])) =>
        /\ (CitesOutside(out1[1]) /\ ~CitesOutside(out2[1])) => winner = "v2"
        /\ (CitesOutside(out2[1]) /\ ~CitesOutside(out1[1])) => winner = "v1"

C4_Witness ==
    /\ pc = "done"
    /\ SameButCitations(out1[1], out2[1])
    /\ CitesOutside(out1[1])
    /\ ~CitesOutside(out2[1])
    /\ Len(out2[1].citations) = 0
    /\ winner = "v2"

\* C5: of two candidates equal in answer, grounded and confidence, the one
\* citing outside the filtered matches scores at least 5 less than the one
\* whose citations (none, or some) are all inside
C5_InvalidCitationCostsFive ==
    (pc = "scored" /\ SameButCitations(out1[1], out2[1])) =>
        /\ (CitesOutside(out1[1]) /\ ~CitesOutside(out2[1])) => score1 <= score2 - 5
        /\ (CitesOutside(out2[1]) /\ ~CitesOutside(out1[1])) => score2 <= score1 - 5

C5_Witness ==
    /\ pc = "scored"
    /\ SameButCitations(out1[1], out2[1])
    /\ CitesOutside(out1[1])
    /\ Len(out1[1].citations) = 2
    /\ Len(out2[1].citations) = 0
    /\ score1 = score2 - 5

\* the questions of the model that ask about product code PE-1234
CodeQuestions == {M_lookupCode, M_codeQuestion}

\* answers that open with the markers the answer prompts prescribe
NegativeAnswers == {A_no, A_couldnt}

AffirmativeAnswers == {A_yes}

\* C6 (as claimed): for a question about code X and evidence holding the line
\* "Code: X", a negative answer scores at least 10 less than an affirmative
\* one with the same grounded, confidence and citations
C6_FalseNegativeCostsTen ==
    (/\ pc = "scored"
     /\ message \in CodeQuestions
     /\ Includes(sourcesText, T_codeLine)
     /\ SameButAnswer(out1[1], out2[1])
     /\ out1[1].answer \in NegativeAnswers
     /\ out2[1].answer \in AffirmativeAnswers)
        => score1 <= score2 - 10

\* the rewrite chain threw, or its rag_query is empty or all blanks
RewriteFailed(r) ==
    r.kind = "threw" \/ \A i \in 1..Len(r.rag_query) : IsSpace(r.rag_query[i])

\* C7: the rewrite step always hands over to retrieval, and after a failed
\* rewrite the query for searchHybrid is the message itself
C7_RewriteFailureFallsBack ==
    [][pc = "rewrite" =>
          /\ pc' = "retrieve"
          /\ RewriteFailed(rewritten') => ragQuery' = message]_vars

C7_Witness ==
    /\ pc = "retrieve"
    /\ rewritten.kind = "response"
    /\ rewritten.rag_query = R_blank
    /\ ragQuery = message

\* the filter step is over
Filtered ==
    \/ pc \in {"answer", "done"}
    \/ pc = "rejected" /\ error \in {"answer_v1", "answer_v2"}

\* C8: the filtered matches are rows of the retrieved list, at most 8 of them
C8_FilteredWithinRetrieved ==
    Filtered =>
        /\ \A i \in 1..Len(filteredMatches) :
              \E j \in 1..Len(matches) : matches[j] = filteredMatches[i]
        /\ Len(filteredMatches) <= 8

C8_Witness ==
    /\ pc = "answer"
    /\ Len(matches) = HybridLimit
    /\ \E id \in keep : \A j \in 1..Len(matches) : matches[j].chunk_id # id
    /\ Len(filteredMatches) = MaxKeep - 1

\* the filter kept none of the retrieved rows
NoneKept == \A j \in 1..Len(matches) : matches[j].chunk_id \notin keep

HasDigitRun(s) == \E i \in 1..(Len(s) - 3) : \A k \in i..(i + 3) : IsDigit(s[k])

\* two alphanumerics joined by a hyphen or a colon
HasJoinedToken(s) ==
    \E i \in 2..(Len(s) - 1) :
        s[i] \in {"-", ":"} /\ IsAlnum(s[i - 1]) /\ IsAlnum(s[i + 1])

\* C10 (as claimed): searchHybrid takes the lexical-first path exactly when
\* the query holds the word "code" or "barcode", or a run of four or more
\* digits, or a hyphen/colon-joined alphanumeric token, and the vector-first
\* path otherwise
C10_IdentifierLikeExactly ==
    mode # "none" =>
        (mode = "lexical"
            <=> (\/ HasWord(query, S_code)
                 \/ HasWord(query, S_barcode)
                 \/ HasDigitRun(query)
                 \/ HasJoinedToken(query)))

\* the chunk ids of a list of rows
IdsOf(rows) == {rows[i].chunk_id : i \in 1..Len(rows)}

\* the per-token lexical searches found enough distinct chunks
LexicalSufficed == Cardinality(IdsOf(lexicalResults)) >= (IF limit < 3 THEN limit ELSE 3)

\* C11: in identifier mode, with at least min(3, limit) distinct lexical chunk
\* ids the result holds lexical rows only and no embedding or vector call was
\* made; with fewer, the embedding was called and the result is the lexical
\* rows followed by the rows of searchVector, cut to limit
C11_LexicalThreshold ==
    /\ (mode = "lexical" /\ embedCalls > 0) => ~LexicalSufficed
    /\ (mode = "lexical" /\ rpc = "returned") =>
          IF LexicalSufficed
          THEN /\ embedCalls = 0
               /\ vectorRows = <<>>
               /\ IdsOf(ragRows) \subseteq IdsOf(lexicalResults)
          ELSE /\ embedCalls = 1
               /\ IdsOf(lexicalResults) \subseteq IdsOf(ragRows)
               /\ IdsOf(ragRows) \subseteq IdsOf(lexicalResults) \cup IdsOf(vectorRows)
               /\ (Len(ragRows) = limit \/ IdsOf(vectorRows) \subseteq IdsOf(ragRows))

C11_Witness ==
    /\ mode = "lexical"
    /\ rpc = "returned"
    /\ limit = HybridLimit
    /\ Len(lexicalResults) > Cardinality(IdsOf(lexicalResults))
    /\ Cardinality(IdsOf(lexicalResults)) = 3
    /\ embedCalls = 0

\* C12: what searchHybrid returns has at most limit rows, no two with the
\* same chunk_id, in both modes
C12_AtMostLimitNoDuplicates ==
    rpc = "returned" =>
        /\ Len(ragRows) <= limit
        /\ \A i, j \in 1..Len(ragRows) :
              ragRows[i].chunk_id = ragRows[j].chunk_id => i = j

C12_Witness ==
    /\ rpc = "returned"
    /\ mode = "lexical"
    /\ Len(lexicalResults) > Cardinality(IdsOf(lexicalResults))
    /\ IdsOf(vectorRows) \cap IdsOf(lexicalResults) # {}
    /\ Len(ragRows) = limit

\* the rank of chunk c by distance to the query's embedding
DistRank(c) == CHOOSE k \in 1..Len(distOrder) : distOrder[k] = c

\* the n chunks nearest to the query's embedding
Nearest(n) == {distOrder[k] : k \in 1..(IF n < Len(distOrder) THEN n ELSE Len(distOrder))}

\* product < material < dictionary < schema
TypeRank(c) ==
    CASE DocType(c) = "product" -> 1
      [] DocType(c) = "material" -> 2
      [] DocType(c) = "dictionary" -> 3
      [] DocType(c) = "schema" -> 4

\* chunk a sorts before chunk b: a higher-priority doc type, or the same
\* type and a smaller distance
SortsBefore(a, b) ==
    \/ TypeRank(a) < TypeRank(b)
    \/ TypeRank(a) = TypeRank(b) /\ DistRank(a) < DistRank(b)

\* rows are the first `limit` chunks of the window in sorted order
FirstOfWindow(rows, window) ==
    /\ IdsOf(rows) \subseteq window
    /\ Len(rows) = (IF limit < Cardinality(window) THEN limit ELSE Cardinality(window))
    /\ \A i, j \in 1..Len(rows) : i < j => SortsBefore(rows[i].chunk_id, rows[j].chunk_id)
    /\ \A c \in window \ IdsOf(rows) :
          \A i \in 1..Len(rows) : SortsBefore(rows[i].chunk_id, c)

\* search or searchVector has resolved
VectorResolved == rpc = "returned" /\ embedCalls = 1

\* C13 (as claimed): the vector path returns the first limit rows of the
\* window of the 4 x limit nearest chunks, sorted by doc-type priority and,
\* within a type, by ascending distance
C13_WindowOfFourTimesLimit ==
    VectorResolved => FirstOfWindow(vectorRows, Nearest(4 * limit))

\* C13 (amended): ... of the window of the 40 nearest chunks, whatever the
\* limit ...
C13_WindowOfForty ==
    VectorResolved => FirstOfWindow(vectorRows, Nearest(40))

C13_Witness ==
    /\ VectorResolved
    /\ limit = HybridLimit
    /\ \E c \in 1..StoreSize : DocType(c) = "product" /\ c \notin Nearest(40)
    /\ \E i \in 1..Len(vectorRows) : TypeRank(vectorRows[i].chunk_id) = 2

\* the chunk ids of rows, in order
IdSeq(rows) == [i \in 1..Len(rows) |-> rows[i].chunk_id]

\* C14 (as claimed): a second call of searchHybrid with the same query and
\* limit, over the same store and with the same embedding, returns the same
\* ordered list of chunk ids as the first, whatever order or qualifying
\* subset the store picks where the statements leave them open
C14_SecondCallSameList ==
    (rpc = "returned" /\ prevRows # <<>>) => IdSeq(ragRows) = IdSeq(prevRows[1])

\* the queries of the model that hold the barcode token 09038
BarcodeQueries == {M_barcode, Q_digits}

\* the chunk of the document whose barcode line is exactly "Barcode: 09038"
ExactBarcodeChunk == CHOOSE c \in 1..StoreSize : RawText(c) = T_barcodeLine

\* C15 (as claimed): a query holding a barcode token equal to the barcode
\* line of a document: every result of searchHybrid(query, 10) holds a chunk
\* of that document
C15_ExactBarcodeSurfaces ==
    (rpc = "returned" /\ limit = HybridLimit /\ query \in BarcodeQueries)
        => ExactBarcodeChunk \in IdsOf(ragRows)

\* C16: when bedrock.embed fails, searchHybrid has rejected and resolved with
\* no rows, whatever the lexical loop had collected
C16_EmbedFailureRejects ==
    ragError = "embed" => (rpc = "rejected" /\ ragRows = <<>>)

C16_Witness ==
    /\ ragError = "embed"
    /\ mode = "lexical"
    /\ lexicalResults # <<>>
    /\ rpc = "rejected"

\* C17: a failure of searchHybrid, of the filter chain (its schema included)
\* or of either answer chain rejects run: no Answer is returned and no winner
\* is picked, even when the other candidate had completed
C17_AnyFailureRejects ==
    /\ error # "none" => (pc = "rejected" /\ result = <<>> /\ winner = "none")
    /\ pc = "rejected" => error # "none"
    /\ pc = "done" => Cardinality(keep) <= MaxKeep

C17_Witness ==
    /\ pc = "rejected"
    /\ error = "answer_v2"
    /\ out1 # <<>>
    /\ Len(filteredMatches) > 0

\* the stages of run in program order
StageOf(p) ==
    CASE p = "rewrite" -> 1
      [] p = "retrieve" -> 2
      [] p = "filter" -> 3
      [] p = "answer" -> 4
      [] p = "done" -> 5
      [] p = "rejected" -> 6

\* what has happened by each stage
StageData ==
    /\ pc = "rewrite" => ragQuery = message
    /\ (Len(matches) > 0 \/ error = "retrieval") => StageOf(pc) > 2
    /\ (keep # {} \/ Len(filteredMatches) > 0 \/ error = "filter") => StageOf(pc) > 3
    /\ (duel.asked1 # <<>> \/ duel.asked2 # <<>>) => StageOf(pc) > 3
    /\ (out1 # <<>> \/ out2 # <<>>) => (duel.asked1 # <<>> /\ duel.asked2 # <<>>)
    /\ (winner # "none" \/ result # <<>>) => (pc = "done" /\ out1 # <<>> /\ out2 # <<>>)

\* a step moves to the next stage or rejects
StageStep == pc' # pc => (pc' = "rejected" \/ StageOf(pc') = StageOf(pc) + 1)

\* C18: the stages of run are strictly ordered: searchHybrid resolves only
\* after the rewrite has finished, the filter only after searchHybrid, the
\* answer chains are invoked only after the filter has resolved, and scores
\* and winner exist only once both answer chains have resolved
C18_StagesInOrder == []StageData /\ [][StageStep]_vars

C18_Witness ==
    /\ pc = "done"
    /\ ragQuery # message
    /\ Len(matches) > 0
    /\ keep # {}
    /\ winner = "v2"

\* C19: both answer chains are invoked before either resolves, with the same
\* question and the same sources text built from filteredMatches, and the
\* scores and the winner are those of the two outputs whichever chain
\* resolved first
C19_SameInputsAnyOrder ==
    /\ (out1 # <<>> \/ out2 # <<>>) => (duel.asked1 # <<>> /\ duel.asked2 # <<>>)
    /\ pc \in {"answer", "done"} =>
          /\ duel.asked1 = duel.asked2
          /\ duel.asked1 = <<[question |-> message,
                              sources |-> BuildSourcesText(filteredMatches)]>>
    /\ pc = "done" =>
          /\ score1 = ScoreAnswer(out1[1], filteredMatches,
                                  BuildSourcesText(filteredMatches), message)
          /\ score2 = ScoreAnswer(out2[1], filteredMatches,
                                  BuildSourcesText(filteredMatches), message)
          /\ winner \in {"v1", "v2"}
          /\ winner = "v2" <=> score2 > score1

C19_Witness ==
    /\ pc = "done"
    /\ duel.first = "v2"
    /\ winner = "v1"
    /\ score1 = score2
    /\ out1 # out2

\* C20 (as claimed): a winner whose citation list holds a chunk id absent
\* from the filtered matches, or is empty, is returned with no citations
C20_InvalidCitationsDropped ==
    pc = "done" =>
        ((CitesOutside(WinnerOut) \/ Len(WinnerOut.citations) = 0)
            => Len(result[1].citations) = 0)

\* C21: the matches of the returned Answer are the filtered matches (after
\* the empty-set fallback), whichever candidate won and whatever matches the
\* winner itself listed
C21_MatchesAreFiltered ==
    pc = "done" => result[1].matches = filteredMatches

C21_Witness ==
    /\ pc = "done"
    /\ winner = "v2"
    /\ WinnerOut.matches # filteredMatches
    /\ Len(matches) = 2
    /\ NoneKept
    /\ Len(filteredMatches) = 1

\* the sum of the four terms the claim lists, confidence in tenths
ClaimedSum(out) ==
    (IF out.grounded = TRUE THEN 3 ELSE -1)
    + (IF out.confidence >= 9 /\ out.grounded # TRUE THEN -2 ELSE 0)
    + (IF out.confidence >= 7 THEN 1 ELSE 0)
    + (IF CitesOutside(out) THEN -5 ELSE IF Len(out.citations) > 0 THEN 1 ELSE 0)

\* C22: leaving the two direct-match terms aside, scoreAnswer is +3 if
\* grounded else -1, -2 if confidence >= 0.9 and not grounded, +1 if
\* confidence >= 0.7, -5 if a cited id is outside the filtered matches,
\* otherwise +1 if something is cited
C22_ScoreIsSumOfTerms ==
    pc = "scored" =>
        /\ score1 - DirectMatchTerm(out1[1], sourcesText, message) = ClaimedSum(out1[1])
        /\ score2 - DirectMatchTerm(out2[1], sourcesText, message) = ClaimedSum(out2[1])

C22_Witness ==
    /\ pc = "scored"
    /\ ~out1[1].grounded
    /\ out1[1].confidence >= 9
    /\ CitesOutside(out1[1])
    /\ DirectMatchTerm(out1[1], sourcesText, message) = 0
    /\ score1 = -7

\* C26 (as claimed): the +1 direct-match bonus goes only to a candidate whose
\* answer affirms existence while a direct-match signal is present, and no
\* candidate gets both the -10 penalty and the +1 bonus
C26_BonusOnlyForAffirming ==
    pc = "scored" =>
        /\ score1 - ClaimedSum(out1[1]) \in {-10, 0, 1}
        /\ score1 - ClaimedSum(out1[1]) = 1 =>
              /\ out1[1].answer \in AffirmativeAnswers
              /\ AnySignal(ExtractDirectMatchSignals(message, sourcesText))

\* the rag_chunks rows a reader finds for a document
ChunksSeen(documentId) ==
    {chunkRows[i] : i \in {k \in 1..Len(chunkRows) : chunkRows[k].document_id = documentId}}

\* the complete chunk set of a document's current raw_text
ChunksDue(d) == {ChunkRowsFor(d.id, d.raw_text)[k] : k \in 1..Len(ChunkRowsFor(d.id, d.raw_text))}

\* some but not all of the chunks
ProperPart(seen, due) == seen # {} /\ seen \subseteq due /\ seen # due

\* C23 (as claimed): during rebuildChunks, and after one that failed partway,
\* a reader finds none of a document's chunks or all of them, never a
\* non-empty proper part of the new chunk list
C23_ChunksAllOrNothing ==
    \A d \in documents : ~ProperPart(ChunksSeen(d.id), ChunksDue(d))

\* getOrUpsertDocument has returned to the run of worker w
Upserted(w) == workers[w].pc \in {"delete", "embed", "insertChunk", "failed"}

\* two rows are of the same (doc_type, entity_table, entity_id)
SameTriple(a, b) ==
    /\ a.doc_type = b.doc_type
    /\ a.entity_table = b.entity_table
    /\ a.entity_id = b.entity_id

\* C24: calls of getOrUpsertDocument one after the other leave at most one
\* rag_documents row per (doc_type, entity_table, entity_id); the id a call
\* returns is that of the row of its triple, which carries the call's title
\* and raw_text
C24_OneRowPerTriple ==
    /\ \A a, b \in documents : SameTriple(a, b) => a = b
    /\ Upserted(1) =>
          DocumentRow(workers[1].docId, workers[1].entity) \in documents

C24_Witness ==
    /\ workers[1].pc = "delete"
    /\ workers[1].done = 1
    /\ workers[1].docId = 1
    /\ docSeq = 2
    /\ workers[1].entity = Entity(ProductOne, "new", RawShort)
    /\ Cardinality(documents) = 2

\* C29 (as claimed): two overlapping getOrUpsertDocument calls with the same
\* triple, on a store without a row for it, leave exactly one row for the
\* triple, and both return its id
C29_OverlapLeavesOneRow ==
    (/\ Upserted(1)
     /\ Upserted(2)
     /\ SameTriple(workers[1].entity, workers[2].entity))
        => /\ workers[1].docId = workers[2].docId
           /\ Cardinality(Existing(documents, workers[1].entity)) = 1

\* C25 (as claimed): the lexical loop runs over at most 5 tokens and leaves
\* tokens unsearched only once limit distinct chunk ids are collected
C25_StopsOnDistinctOnly ==
    (mode = "lexical" /\ rpc \in {"embed", "query", "returned"}) =>
        /\ Len(tokens) <= 5
        /\ tokenIdx < Len(tokens) => Cardinality(IdsOf(lexicalResults)) >= limit

\* C27 (as claimed): when the filter keeps none of the retrieved rows, the
\* filtered list stays empty exactly when searchHybrid took the identifier
\* path for the retrieval query, and is the top row exactly when it went
\* vector-first
C27_ClassifiersAgree ==
    (Filtered /\ Len(matches) > 0 /\ NoneKept) =>
        (LooksLikeIdentifier(ragQuery) <=> Len(filteredMatches) = 0)

\* C28: the returned citations are none or one {chunk_id, title} per
\* filtered match, in order; none exactly when the winner cited nothing or
\* no match was filtered in
C28_CitationsAllOrNothing ==
    pc = "done" =>
        /\ \/ Len(result[1].citations) = 0
           \/ /\ Len(result[1].citations) = Len(filteredMatches)
              /\ \A i \in 1..Len(filteredMatches) :
                    result[1].citations[i] =
                        [chunk_id |-> filteredMatches[i].chunk_id,
                         title    |-> filteredMatches[i].title]
        /\ Len(result[1].citations) = 0
              <=> (Len(WinnerOut.citations) = 0 \/ Len(filteredMatches) = 0)

C28_Witness ==
    /\ pc = "done"
    /\ Len(filteredMatches) = 2
    /\ Len(WinnerOut.citations) = 1
    /\ ~CitesOutside(WinnerOut)
    /\ Len(result[1].citations) = 2

\* C30 (as claimed): whatever the order of onSend, the response or error
\* and clearChat, a selected messageId is the id of a message on display,
\* and once the request has settled loading is off and nothing shows the
\* "Thinking..." placeholder
C30_SelectedShownAndSettled ==
    /\ selected # <<>> => \E i \in 1..Len(messages) : messages[i].id = selected[1]
    /\ inflight = <<>> =>
          /\ ~loading
          /\ \A i \in 1..Len(messages) : messages[i].content # "thinking"

====
